---- MODULE Spec2Model ----
(***************************************************************************)
(* Model of bitcoin/src/blockdata/witness.rs: the packed Witness stack,   *)
(* its consensus codec, its accessors and mutators.                        *)
(*                                                                         *)
(* Machine words.  usize and u64 are 64 bits wide.  A word is held as four *)
(* 16-bit limbs, least significant first, so that values up to 2^64 - 1    *)
(* and their wraparound are exact.                                         *)
(*                                                                         *)
(* Byte buffers.  A Vec<u8> / &[u8] is held run-length encoded: a sequence *)
(* of runs <<byte, count>> with count a non-zero word and neighbouring     *)
(* runs of different bytes.  The encoding is canonical (two buffers are    *)
(* equal iff they hold the same bytes), and it lets a buffer hold more     *)
(* than 2^32 bytes.                                                        *)
(***************************************************************************)
EXTENDS Integers, Sequences, FiniteSets, TLC

\* ------------------------------------------------------------------ words
Limb == 65536

W0 == <<0, 0, 0, 0>>

\* the word holding the natural number n (n < 2^31)
W(n) == <<n % Limb, n \div Limb, 0, 0>>

\* usize::max_value()
USIZE_MAX == <<65535, 65535, 65535, 65535>>

\* isize::MAX, the largest size a Vec may be asked to hold
ISIZE_MAX == <<65535, 65535, 65535, 32767>>

WFits(a) == a[3] = 0 /\ a[4] = 0 /\ a[2] < 32768

WNat(a) == a[1] + a[2] * Limb

WLt(a, b) ==
    \/ a[4] < b[4]
    \/ a[4] = b[4] /\ a[3] < b[3]
    \/ a[4] = b[4] /\ a[3] = b[3] /\ a[2] < b[2]
    \/ a[4] = b[4] /\ a[3] = b[3] /\ a[2] = b[2] /\ a[1] < b[1]

WLe(a, b) == a = b \/ WLt(a, b)

\* a + b modulo 2^64, with the carry out
WAddC(a, b) ==
    LET s1 == a[1] + b[1]
        s2 == a[2] + b[2] + s1 \div Limb
        s3 == a[3] + b[3] + s2 \div Limb
        s4 == a[4] + b[4] + s3 \div Limb
    IN  [v |-> <<s1 % Limb, s2 % Limb, s3 % Limb, s4 % Limb>>,
         carry |-> s4 \div Limb # 0]

\* a - b modulo 2^64, with the borrow out
WSubB(a, b) ==
    LET d1 == a[1] - b[1]
        b1 == IF d1 < 0 THEN 1 ELSE 0
        d2 == a[2] - b[2] - b1
        b2 == IF d2 < 0 THEN 1 ELSE 0
        d3 == a[3] - b[3] - b2
        b3 == IF d3 < 0 THEN 1 ELSE 0
        d4 == a[4] - b[4] - b3
    IN  [v |-> <<d1 % Limb, d2 % Limb, d3 % Limb, d4 % Limb>>,
         carry |-> d4 < 0]

\* a * 4 modulo 2^64, with the overflow flag
WMul4C(a) ==
    LET m1 == a[1] * 4
        m2 == a[2] * 4 + m1 \div Limb
        m3 == a[3] * 4 + m2 \div Limb
        m4 == a[4] * 4 + m3 \div Limb
    IN  [v |-> <<m1 % Limb, m2 % Limb, m3 % Limb, m4 % Limb>>,
         carry |-> m4 \div Limb # 0]

\* a / 4
WDiv4(a) ==
    <<a[1] \div 4 + (a[2] % 4) * 16384,
      a[2] \div 4 + (a[3] % 4) * 16384,
      a[3] \div 4 + (a[4] % 4) * 16384,
      a[4] \div 4>>

\* Exact sums and differences, used where the code's values cannot wrap
\* (buffer lengths and positions inside a buffer).
WPlus(a, b) == WAddC(a, b).v

WMinus(a, b) == WSubB(a, b).v

\* `x as u32`: the low 32 bits
AsU32(a) == <<a[1], a[2], 0, 0>>

\* ------------------------------------------------- arithmetic of the build
\* usize `+`, `-` and `*`: a build with overflow checks panics on overflow,
\* a build without them wraps.
Arith(r, checks) == [k |-> IF r.carry /\ checks THEN "Panic" ELSE "Ok", v |-> r.v]

UAdd(a, b, checks) == Arith(WAddC(a, b), checks)

USub(a, b, checks) == Arith(WSubB(a, b), checks)

UMul4(a, checks) == Arith(WMul4C(a), checks)

\* ---------------------------------------------------------- byte buffers
RECURSIVE BLen(_)
BLen(c) == IF c = <<>> THEN W0 ELSE WPlus(c[1][2], BLen(Tail(c)))

\* a ++ b
BCat(a, b) ==
    IF a = <<>> THEN b
    ELSE IF b = <<>> THEN a
    ELSE IF a[Len(a)][1] = b[1][1]
         THEN SubSeq(a, 1, Len(a) - 1)
              \o << <<b[1][1], WPlus(a[Len(a)][2], b[1][2])>> >>
              \o Tail(b)
         ELSE a \o b

\* the first n bytes of c (all of c when it is shorter)
RECURSIVE BTake(_, _)
BTake(c, n) ==
    IF n = W0 \/ c = <<>> THEN <<>>
    ELSE IF WLe(c[1][2], n)
         THEN <<c[1]>> \o BTake(Tail(c), WMinus(n, c[1][2]))
         ELSE << <<c[1][1], n>> >>

\* c without its first n bytes (empty when it is shorter)
RECURSIVE BDrop(_, _)
BDrop(c, n) ==
    IF n = W0 \/ c = <<>> THEN c
    ELSE IF WLe(c[1][2], n)
         THEN BDrop(Tail(c), WMinus(n, c[1][2]))
         ELSE << <<c[1][1], WMinus(c[1][2], n)>> >> \o Tail(c)

\* c[s..e], for s <= e <= len
BSlice(c, s, e) == BTake(BDrop(c, s), WMinus(e, s))

\* n zero bytes
BZeros(n) == IF n = W0 THEN <<>> ELSE << <<0, n>> >>

\* the buffer holding the bytes of the plain sequence s
RECURSIVE BFromSeq(_)
BFromSeq(s) ==
    IF s = <<>> THEN <<>>
    ELSE BCat(<< <<s[1], W(1)>> >>, BFromSeq(Tail(s)))

\* the first (at most k) bytes of c as a plain sequence, k a small number
RECURSIVE BPlain(_, _)
BPlain(c, k) ==
    IF k = 0 \/ c = <<>> THEN <<>>
    ELSE <<c[1][1]>> \o BPlain(BDrop(c, W(1)), k - 1)

\* c with c[pos .. pos + len(data)] overwritten by data (copy_from_slice)
BWrite(c, pos, data) ==
    BCat(BCat(BTake(c, pos), data), BDrop(c, WPlus(pos, BLen(data))))

\* ---------------------------------------------------------------- VarInt
\* VarInt(v).len(): the width of the encoding of v
VarIntLen(v) ==
    IF v[4] # 0 \/ v[3] # 0 THEN 9
    ELSE IF v[2] # 0 THEN 5
    ELSE IF v[1] >= 253 THEN 3
    ELSE 1

\* the limb l as two bytes, least significant first
LimbBytes(l) == <<l % 256, l \div 256>>

\* VarInt(v).consensus_encode: the bytes written, as a plain sequence
VarIntEncode(v) ==
    IF VarIntLen(v) = 1 THEN <<v[1]>>
    ELSE IF VarIntLen(v) = 3 THEN <<253>> \o LimbBytes(v[1])
    ELSE IF VarIntLen(v) = 5 THEN <<254>> \o LimbBytes(v[1]) \o LimbBytes(v[2])
    ELSE <<255>> \o LimbBytes(v[1]) \o LimbBytes(v[2])
                 \o LimbBytes(v[3]) \o LimbBytes(v[4])

\* VarInt::consensus_decode on the plain bytes s that the reader still
\* holds: the value and the number of bytes read, an I/O error when the
\* reader runs dry, NonMinimalVarInt when a wider form holds a small value.
VarIntDecode(s) ==
    LET fail(kind) == [k |-> kind, v |-> W0, len |-> 0]
        limb(i) == s[i] + s[i + 1] * 256
    IN  IF Len(s) = 0 THEN fail("Io")
        ELSE IF s[1] = 255
             THEN IF Len(s) < 9 THEN fail("Io")
                  ELSE IF limb(6) = 0 /\ limb(8) = 0 THEN fail("NonMinimal")
                  ELSE [k |-> "Ok", len |-> 9,
                        v |-> <<limb(2), limb(4), limb(6), limb(8)>>]
        ELSE IF s[1] = 254
             THEN IF Len(s) < 5 THEN fail("Io")
                  ELSE IF limb(4) = 0 THEN fail("NonMinimal")
                  ELSE [k |-> "Ok", len |-> 5, v |-> <<limb(2), limb(4), 0, 0>>]
        ELSE IF s[1] = 253
             THEN IF Len(s) < 3 THEN fail("Io")
                  ELSE IF limb(2) < 253 THEN fail("NonMinimal")
                  ELSE [k |-> "Ok", len |-> 3, v |-> <<limb(2), 0, 0, 0>>]
        ELSE [k |-> "Ok", len |-> 1, v |-> <<s[1], 0, 0, 0>>]

\* ------------------------------------------------------------- constants
U32_SIZE == 4

MAX_VEC_SIZE == 4000000

\* ------------------------------------------------------------- the stack
\* struct Witness; witness_elements is a small number in every stack that
\* is ever built, and is kept as a plain natural.
Witness(c, n, s) == [content |-> c, witness_elements |-> n, indices_start |-> s]

\* Witness::default()
Default == Witness(<<>>, 0, W0)

\* Option<&[u8]> and Option<usize> results; Panic is a fault of the call
Some(x) == [k |-> "Some", v |-> x]

None == [k |-> "None", v |-> <<>>]

Panic == [k |-> "Panic", v |-> <<>>]

\* (value as u32).to_ne_bytes(), little-endian as the tests lay it out
U32Bytes(value) == BFromSeq(LimbBytes(value[1]) \o LimbBytes(value[2]))

\* u32::from_ne_bytes(b) as usize, b four plain bytes
U32FromBytes(b) == <<b[1] + b[2] * 256, b[3] + b[4] * 256, 0, 0>>

encode_cursor(bytes, start_of_indices, index, value) ==
    LET start == WPlus(start_of_indices, W(index * U32_SIZE))
    IN  BWrite(bytes, start, U32Bytes(AsU32(value)))

\* bytes[s..e]: a fault when s > e or e > bytes.len()
SliceChecked(bytes, s, e) ==
    IF WLt(e, s) \/ WLt(BLen(bytes), e) THEN Panic
    ELSE Some(BSlice(bytes, s, e))

decode_cursor(bytes, start_of_indices, index, checks) ==
    LET read(start, end) ==
            IF start.k = "Panic" \/ end.k = "Panic" THEN Panic
            ELSE IF WLt(BLen(bytes), end.v) THEN None
            ELSE IF SliceChecked(bytes, start.v, end.v).k = "Panic" THEN Panic
            ELSE Some(U32FromBytes(BPlain(BDrop(bytes, start.v), 4)))
        from(start) == read(start, UAdd(start.v, W(U32_SIZE), checks))
        scaled(m) ==
            IF m.k = "Panic" THEN Panic
            ELSE from(UAdd(start_of_indices, m.v, checks))
    IN  scaled(UMul4(index, checks))

\* The body shared by element_at and Iter::next: the length prefix at
\* `index` is decoded and the bytes after it are sliced out.
SliceAt(bytes, index, checks) ==
    IF WLt(BLen(bytes), index) THEN Panic
    ELSE LET slice(start, end) ==
                 IF start.k = "Panic" \/ end.k = "Panic" THEN Panic
                 ELSE SliceChecked(bytes, start.v, end.v)
             from(varint, start) ==
                 slice(start, UAdd(start.v, varint.v, checks))
             prefixed(varint) ==
                 IF varint.k # "Ok" THEN None
                 ELSE from(varint, UAdd(index, W(varint.len), checks))
         IN  prefixed(VarIntDecode(BPlain(BDrop(bytes, index), 9)))

element_at(w, index, checks) == SliceAt(w.content, index, checks)

nth(w, index, checks) ==
    LET at(pos) == IF pos.k # "Some" THEN pos ELSE element_at(w, pos.v, checks)
    IN  at(decode_cursor(w.content, w.indices_start, index, checks))

len(w) == w.witness_elements

last(w, checks) ==
    IF w.witness_elements = 0 THEN None
    ELSE nth(w, W(w.witness_elements - 1), checks)

second_to_last(w, checks) ==
    IF w.witness_elements <= 1 THEN None
    ELSE nth(w, W(w.witness_elements - 2), checks)

get_tapscript(w, checks) ==
    LET script_pos_from_last(l) ==
            IF len(w) >= 2 /\ l.v # <<>> /\ l.v[1][1] = 80 THEN 3 ELSE 2
        script(l) ==
            IF l.k # "Some" THEN l
            ELSE IF ~(len(w) >= script_pos_from_last(l)) THEN None
            ELSE nth(w, W(len(w) - script_pos_from_last(l)), checks)
    IN  script(last(w, checks))

\* -------------------------------------------------------------- mutators
\* Witness::push(new_element)
push(w, new_element) ==
    LET witness_elements     == w.witness_elements + 1
        previous_content_end == w.indices_start
        element_len_varint   == BLen(new_element)
        varint_len           == W(VarIntLen(element_len_varint))
        new_item_total_len   == WPlus(varint_len, BLen(new_element))
        resized  == BCat(w.content, BZeros(WPlus(new_item_total_len, W(U32_SIZE))))
        tail     == BDrop(resized, w.indices_start)
        keep     == WMinus(BLen(tail), new_item_total_len)
        \* content[indices_start..].rotate_right(new_item_total_len)
        rotated  == BCat(BTake(resized, w.indices_start),
                         BCat(BDrop(tail, keep), BTake(tail, keep)))
        indices_start == WPlus(w.indices_start, new_item_total_len)
        indexed  == encode_cursor(rotated, indices_start, witness_elements - 1,
                                  previous_content_end)
        end_varint == WPlus(previous_content_end, varint_len)
        prefixed == BWrite(indexed, previous_content_end,
                           BFromSeq(VarIntEncode(element_len_varint)))
    IN  Witness(BWrite(prefixed, end_varint, new_element),
                witness_elements, indices_start)

\* Witness::push_bitcoin_signature(signature, hash_type): the signature
\* bytes followed by the hash type byte, pushed as one element
push_bitcoin_signature(w, signature, hash_type) ==
    LET sig == BWrite(BZeros(W(73)), W0, signature)
        tagged == BWrite(sig, BLen(signature), BFromSeq(<<hash_type>>))
    IN  push(w, BTake(tagged, WPlus(BLen(signature), W(1))))

\* clear() that resets the counters and keeps the bytes
clear_keeps_content(w) == Witness(w.content, 0, W0)

\* clear() that forgets to reset indices_start
clear_keeps_indices_start(w) == Witness(<<>>, 0, w.indices_start)

\* Witness::clear()
clear(w) == Witness(<<>>, 0, W0)

\* the fold of from_vec: sum of el.len() + VarInt(el.len()).len()
RECURSIVE ContentSize(_)
ContentSize(vec) ==
    IF vec = <<>> THEN W0
    ELSE WPlus(WPlus(BLen(vec[1]), W(VarIntLen(BLen(vec[1])))),
               ContentSize(Tail(vec)))

\* the loop of from_vec, from element i on
RECURSIVE FromVecLoop(_, _, _, _, _)
FromVecLoop(vec, i, content, content_size, cursor) ==
    IF i > Len(vec) THEN content
    ELSE LET el            == vec[i]
             indexed       == encode_cursor(content, content_size, i - 1, cursor)
             el_len_varint == BLen(el)
             after_varint  == WPlus(cursor, W(VarIntLen(el_len_varint)))
             prefixed      == BWrite(indexed, cursor,
                                     BFromSeq(VarIntEncode(el_len_varint)))
             copied        == BWrite(prefixed, after_varint, el)
         IN  FromVecLoop(vec, i + 1, copied, content_size,
                         WPlus(after_varint, BLen(el)))

\* from_vec that leaves room for one index entry too many
from_vec_spare_entry(vec) ==
    LET witness_elements == Len(vec)
        index_size       == W((witness_elements + 1) * U32_SIZE)
        content_size     == ContentSize(vec)
        content          == BZeros(WPlus(content_size, index_size))
    IN  Witness(FromVecLoop(vec, 1, content, content_size, W0),
                witness_elements, content_size)

\* Witness::from_vec(vec)
from_vec(vec) ==
    LET witness_elements == Len(vec)
        index_size       == W(witness_elements * U32_SIZE)
        content_size     == ContentSize(vec)
        content          == BZeros(WPlus(content_size, index_size))
    IN  Witness(FromVecLoop(vec, 1, content, content_size, W0),
                witness_elements, content_size)

\* -------------------------------------------------------------- iteration
\* struct Iter; current_index is a small number
iter(w) == [inner |-> w.content, indices_start |-> w.indices_start,
            current_index |-> 0]

\* Iter::next: the item (or None, or a fault) and the iterator afterwards
Iter_next(it, checks) ==
    LET yield(slice) ==
            IF slice.k # "Some" THEN [item |-> slice, it |-> it]
            ELSE [item |-> slice,
                  it |-> [it EXCEPT !.current_index = it.current_index + 1]]
        at(index) ==
            IF index.k # "Some" THEN [item |-> index, it |-> it]
            ELSE yield(SliceAt(it.inner, index.v, checks))
    IN  at(decode_cursor(it.inner, it.indices_start,
                         W(it.current_index), checks))

\* Iter::size_hint: the remaining count (both halves of the hint)
size_hint(it, checks) ==
    LET total_count == WDiv4(WMinus(BLen(it.inner), it.indices_start))
        remaining   == USub(total_count, W(it.current_index), checks)
    IN  IF remaining.k = "Panic" THEN Panic ELSE Some(remaining.v)

\* the items a fresh pass over `it` yields until the first None; k is
\* "Panic" when a call of next faults
RECURSIVE Collect(_, _)
Collect(it, checks) ==
    LET cons(item, rest) == [k |-> rest.k, v |-> <<item>> \o rest.v]
        after(step) ==
            IF step.item.k = "None" THEN [k |-> "Ok", v |-> <<>>]
            ELSE IF step.item.k = "Panic" THEN [k |-> "Panic", v |-> <<>>]
            ELSE cons(step.item.v, Collect(step.it, checks))
    IN  after(Iter_next(it, checks))

\* Witness::to_vec()
to_vec(w, checks) == Collect(iter(w), checks)

\* the fold of serialized_len over the items
RECURSIVE SumItemLens(_)
SumItemLens(items) ==
    IF items = <<>> THEN W0
    ELSE WPlus(WPlus(W(VarIntLen(BLen(items[1]))), BLen(items[1])),
               SumItemLens(Tail(items)))

\* Witness::serialized_len()
serialized_len(w, checks) ==
    LET total(items) ==
            IF items.k = "Panic" THEN Panic
            ELSE Some(WPlus(SumItemLens(items.v),
                            W(VarIntLen(W(w.witness_elements)))))
    IN  total(Collect(iter(w), checks))

\* ------------------------------------------------------------------ codec
\* consensus_encode that emits the index region as well
consensus_encode_with_indices(w) ==
    LET len_varint == W(w.witness_elements)
    IN  [written |-> BCat(BFromSeq(VarIntEncode(len_varint)), w.content),
         ret |-> WPlus(BLen(w.content), W(VarIntLen(len_varint)))]

\* Witness::consensus_encode: the bytes written to the sink and the
\* returned count
consensus_encode(w) ==
    LET len_varint   == W(w.witness_elements)
        content_with_indices_len == BLen(w.content)
        indices_size == W(w.witness_elements * U32_SIZE)
        content_len  == WMinus(content_with_indices_len, indices_size)
    IN  [written |-> BCat(BFromSeq(VarIntEncode(len_varint)),
                          BTake(w.content, content_len)),
         ret |-> WPlus(content_len, W(VarIntLen(len_varint)))]

\* resize_if_needed: the new length of a vector of length vec_len
RECURSIVE Doubled(_, _)
Doubled(new_len, required_len) ==
    IF new_len <= required_len THEN Doubled(new_len * 2, required_len)
    ELSE new_len

resize_if_needed(vec, required_len) ==
    LET vec_len == WNat(BLen(vec))
        new_len == Doubled(IF vec_len >= 1 THEN vec_len ELSE 1, required_len)
    IN  IF required_len >= vec_len
        THEN BCat(vec, BZeros(W(new_len - vec_len)))
        ELSE vec

\* The outcome of a decode: k is "Ok" (w is the stack), an error kind
\* ("Io", "NonMinimal", "Oversized" with requested and max) or "Panic";
\* consumed is the number of bytes taken from the reader by the reads that
\* completed.
DecodeResult(kind, w, requested, consumed) ==
    [k |-> kind, w |-> w, requested |-> requested, max |-> W(MAX_VEC_SIZE),
     consumed |-> consumed]

\* required_len that leaves the cursor out of the sum
RequiredLen_without_cursor(cursor, element_size, element_size_varint_len) ==
    LET sum == WAddC(element_size, W(element_size_varint_len))
    IN  IF sum.carry
        THEN [k |-> "Oversized", requested |-> USIZE_MAX]
        ELSE IF WLt(W(MAX_VEC_SIZE), sum.v)
        THEN [k |-> "Oversized", requested |-> sum.v]
        ELSE [k |-> "Ok", requested |-> WPlus(sum.v, W(cursor))]

\* required_len of consensus_decode: cursor + element_size +
\* element_size_varint_len by checked additions; the decode gives up with
\* OversizedVectorAllocation when an addition overflows (requested is
\* usize::max_value()) or the sum is over MAX_VEC_SIZE (requested is the sum)
RequiredLen(cursor, element_size, element_size_varint_len) ==
    LET sum1 == WAddC(W(cursor), element_size)
        sum2 == WAddC(sum1.v, W(element_size_varint_len))
    IN  IF sum1.carry \/ sum2.carry
        THEN [k |-> "Oversized", requested |-> USIZE_MAX]
        ELSE IF WLt(W(MAX_VEC_SIZE), sum2.v)
        THEN [k |-> "Oversized", requested |-> sum2.v]
        ELSE [k |-> "Ok", requested |-> sum2.v]

\* the loop of consensus_decode, with i elements done and r the plain
\* bytes of the reader, pos of them consumed
RECURSIVE DecodeLoop(_, _, _, _, _, _, _)
DecodeLoop(r, pos, i, witness_elements, cursor, content, indices) ==
    IF W(i) = witness_elements
    THEN DecodeResult("Ok",
                      Witness(BCat(BTake(content, W(cursor)), indices),
                              i, W(cursor)),
                      W0, pos)
    ELSE
    LET element_size_varint == VarIntDecode(SubSeq(r, pos + 1, Len(r)))
        element_size_varint_len == element_size_varint.len
        element_size == element_size_varint.v
        required_len == RequiredLen(cursor, element_size, element_size_varint_len)
        after_varint == pos + element_size_varint_len
        grown    == resize_if_needed(content, WNat(required_len.requested))
        prefixed == BWrite(grown, W(cursor),
                           BFromSeq(VarIntEncode(element_size)))
        data_at  == cursor + element_size_varint_len
        data     == SubSeq(r, after_varint + 1, after_varint + WNat(element_size))
    IN  IF element_size_varint.k # "Ok"
        THEN DecodeResult(element_size_varint.k, Default, W0, pos)
        ELSE IF required_len.k # "Ok"
        THEN DecodeResult(required_len.k, Default, required_len.requested,
                          after_varint)
        ELSE IF after_varint + WNat(element_size) > Len(r)
        THEN DecodeResult("Io", Default, W0, after_varint)
        ELSE DecodeLoop(r, after_varint + WNat(element_size), i + 1,
                        witness_elements, data_at + WNat(element_size),
                        BWrite(prefixed, W(data_at), BFromSeq(data)),
                        BCat(indices, U32Bytes(AsU32(W(cursor)))))

\* witness_elements * U32_SIZE, the capacity asked of Vec::with_capacity
\* for the index accumulator: the product modulo 2^64 and whether it wrapped
IndicesCapacity(witness_elements) == WMul4C(witness_elements)

\* Vec::with_capacity(witness_elements * U32_SIZE) faults: the product
\* overflows in a build that checks, or the capacity is over isize::MAX
CapacityFaults(witness_elements, checks) ==
    LET capacity == UMul4(witness_elements, checks)
    IN  capacity.k = "Panic" \/ WLt(ISIZE_MAX, capacity.v)

\* Witness::consensus_decode on a reader holding the plain bytes r
consensus_decode(r, checks) ==
    LET count    == VarIntDecode(r)
        witness_elements == count.v
    IN  IF count.k # "Ok" THEN DecodeResult(count.k, Default, W0, 0)
        ELSE IF witness_elements = W0
        THEN DecodeResult("Ok", Default, W0, count.len)
        ELSE IF CapacityFaults(witness_elements, checks)
        THEN DecodeResult("Panic", Default, W0, count.len)
        ELSE DecodeLoop(r, count.len, 0, witness_elements, 0,
                        BZeros(W(128)), <<>>)

\* ---------------------------------------------------------------- inputs
\* the largest number of elements a stack is grown to
MaxElems == 2

\* the largest number of tokens a wire input is made of
MaxTokens == 3

\* 2^32 and 2^62
TwoTo32 == <<0, 0, 1, 0>>

TwoTo62 == <<0, 0, 0, 16384>>

\* The byte strings pushed and collected: the empty string, a string that
\* starts with 0x50, and a string of 2^32 bytes (0xFD and then zeros).
Empty == <<>>

BigElem == BCat(BFromSeq(<<253>>), BZeros(WMinus(TwoTo32, W(1))))

Elems == {Empty, BFromSeq(<<80, 1>>), BigElem}

\* a serialized signature and a sighash type (EcdsaSighashType::All)
Signatures == {BFromSeq(<<48, 6, 2, 1, 1, 2, 1, 1>>)}

HashTypes == {1}

\* The pieces wire inputs are made of: the bytes 0 and 1, the count 2 with
\* an empty first element, the encoding of the element [0x50, 0x01], a
\* three-byte form of 0 (not minimal), the length prefix of 3999995 (which
\* with its own five bytes is MAX_VEC_SIZE exactly), the count 1000001
\* (four times which is over MAX_VEC_SIZE), and the nine-byte forms of
\* 2^64 - 1 and of 2^62.
WireTokens ==
    { <<0>>, <<1>>,
      <<2, 0>>,
      <<2, 80, 1>>,
      <<253, 0, 0>>,
      <<254, 251, 8, 61, 0>>,
      <<254, 65, 66, 15, 0>>,
      <<255, 255, 255, 255, 255, 255, 255, 255, 255>>,
      <<255, 0, 0, 0, 0, 0, 0, 0, 64>> }

SeqsUpTo(S, n) == UNION {[1..k -> S] : k \in 0..n}

RECURSIVE Flatten(_)
Flatten(ss) == IF ss = <<>> THEN <<>> ELSE ss[1] \o Flatten(Tail(ss))

WireInputs == {Flatten(ts) : ts \in SeqsUpTo(WireTokens, MaxTokens)}

\* the indices asked of nth: the small ones, and huge ones
IndexInputs == {W(i) : i \in 0..MaxElems} \cup {TwoTo62, USIZE_MAX}

\* ------------------------------------------------------------ wire format
\* The wire format: a count, then for each element its length and its
\* bytes.  The elements that the plain bytes r spell out, from position
\* pos on, n of them.
RECURSIVE WireElementsFrom(_, _, _)
WireElementsFrom(r, pos, n) ==
    IF n = 0 THEN <<>>
    ELSE LET prefix == VarIntDecode(SubSeq(r, pos + 1, Len(r)))
             from   == pos + prefix.len
             to     == from + WNat(prefix.v)
         IN  <<BFromSeq(SubSeq(r, from + 1, to))>>
             \o WireElementsFrom(r, to, n - 1)

WireElements(r) ==
    LET count == VarIntDecode(r)
    IN  WireElementsFrom(r, count.len, WNat(count.v))

\* the wire encoding of the elements es, without the count
RECURSIVE WirePayload(_)
WirePayload(es) ==
    IF es = <<>> THEN <<>>
    ELSE BCat(BCat(BFromSeq(VarIntEncode(BLen(es[1]))), es[1]),
              WirePayload(Tail(es)))

\* the wire encoding of the elements es
WireOf(es) == BCat(BFromSeq(VarIntEncode(W(Len(es)))), WirePayload(es))

\* ----------------------------------------------------------------- state
VARIABLES
    w,                \* the Witness in hand
    elems,            \* the byte strings w was built from, in order
    out,              \* the last operation: its name, argument, the stack
                      \* it was applied to, and its result
    it,               \* the iterator over w, when one is alive
    overflow_checks   \* whether the build panics on arithmetic overflow

vars == <<w, elems, out, it, overflow_checks>>

\* pre is the stack a push or a clear was applied to (Default for the other
\* operations)
Op(name, arg, pre, res) == [op |-> name, arg |-> arg, pre |-> pre, res |-> res]

\* no iterator is alive
NoIter == [live |-> FALSE, iter |-> iter(Default), yielded |-> <<>>,
           ended |-> FALSE]

Init ==
    /\ w = Default
    /\ elems = <<>>
    /\ out = Op("new", <<>>, Default, None)
    /\ it = NoIter
    /\ overflow_checks \in BOOLEAN

\* An iterator borrows the stack: it is gone before any other operation
\* is called.
New ==
    /\ w' = Default
    /\ elems' = <<>>
    /\ out' = Op("new", <<>>, Default, None)
    /\ it' = NoIter
    /\ UNCHANGED overflow_checks

\* from_vec and consensus_decode build a stack and read nothing of the one
\* in hand: they take the place of a stack that was just made by new.
FromVec ==
    \E vec \in SeqsUpTo(Elems, MaxElems) :
        /\ out.op = "new"
        /\ w' = from_vec(vec)
        /\ elems' = vec
        /\ out' = Op("from_vec", vec, Default, None)
        /\ it' = NoIter
        /\ UNCHANGED overflow_checks

\* When a decode fails there is no stack, and the caller goes on with an
\* empty one.
Decode ==
    /\ out.op = "new"
    /\ \E r \in WireInputs :
        \E res \in {consensus_decode(r, overflow_checks)} :
            /\ w' = res.w
            /\ elems' = IF res.k = "Ok" THEN WireElements(r) ELSE <<>>
            /\ out' = Op("decode", r, Default, res)
            /\ it' = NoIter
            /\ UNCHANGED overflow_checks

Push ==
    \E e \in Elems :
        /\ w.witness_elements < MaxElems
        /\ w' = push(w, e)
        /\ elems' = Append(elems, e)
        /\ out' = Op("push", e, w, None)
        /\ it' = NoIter
        /\ UNCHANGED overflow_checks

PushBitcoinSignature ==
    \E sig \in Signatures, hash_type \in HashTypes :
        /\ w.witness_elements < MaxElems
        /\ w' = push_bitcoin_signature(w, sig, hash_type)
        /\ elems' = Append(elems, BCat(sig, BFromSeq(<<hash_type>>)))
        /\ out' = Op("push_bitcoin_signature",
                     BCat(sig, BFromSeq(<<hash_type>>)), w, None)
        /\ it' = NoIter
        /\ UNCHANGED overflow_checks

Clear ==
    /\ w' = clear(w)
    /\ elems' = <<>>
    /\ out' = Op("clear", <<>>, w, None)
    /\ it' = NoIter
    /\ UNCHANGED overflow_checks

\* The read-only operations leave the stack alone.
Query(name, arg, res) ==
    /\ out' = Op(name, arg, Default, res)
    /\ it' = NoIter
    /\ UNCHANGED <<w, elems, overflow_checks>>

Nth == \E i \in IndexInputs : Query("nth", i, nth(w, i, overflow_checks))

Last == Query("last", <<>>, last(w, overflow_checks))

SecondToLast == Query("second_to_last", <<>>, second_to_last(w, overflow_checks))

GetTapscript == Query("get_tapscript", <<>>, get_tapscript(w, overflow_checks))

ToVec == Query("to_vec", <<>>, to_vec(w, overflow_checks))

SerializedLen == Query("serialized_len", <<>>, serialized_len(w, overflow_checks))

Encode == Query("consensus_encode", <<>>, consensus_encode(w))

IterNew ==
    /\ it' = [live |-> TRUE, iter |-> iter(w), yielded |-> <<>>, ended |-> FALSE]
    /\ out' = Op("iter", <<>>, Default, None)
    /\ UNCHANGED <<w, elems, overflow_checks>>

\* One call of next on the live iterator; the items it has yielded and
\* whether it has returned None are remembered.  A call that faults ends
\* the iterator's life.
IterNext ==
    /\ it.live
    /\ \E step \in {Iter_next(it.iter, overflow_checks)} :
           /\ it' = IF step.item.k = "Panic" THEN NoIter
                    ELSE [live |-> TRUE, iter |-> step.it,
                          yielded |-> IF step.item.k = "Some"
                                      THEN Append(it.yielded, step.item.v)
                                      ELSE it.yielded,
                          ended |-> it.ended \/ step.item.k = "None"]
           /\ out' = Op("next", <<>>, Default, step.item)
    /\ UNCHANGED <<w, elems, overflow_checks>>

SizeHint ==
    /\ it.live
    /\ out' = Op("size_hint", <<>>, Default, size_hint(it.iter, overflow_checks))
    /\ UNCHANGED <<w, elems, it, overflow_checks>>

Next ==
    \/ New \/ FromVec \/ Decode \/ Push \/ PushBitcoinSignature \/ Clear
    \/ Nth \/ Last \/ SecondToLast \/ GetTapscript \/ ToVec \/ SerializedLen
    \/ Encode \/ IterNew \/ IterNext \/ SizeHint

Spec == Init /\ [][Next]_vars

\* ================================================================ claims
checks == overflow_checks

Ok(x) == [k |-> "Ok", v |-> x]

\* C1: to_vec(from_vec(V)) equals V for every ordered collection V of byte
\* strings: the same number of elements, in the same order, with the same
\* bytes.
C1_RoundTrip ==
    out.op = "from_vec" => to_vec(w, checks) = Ok(out.arg)

\* C2: when consensus_decode succeeds on the bytes B and consumes all of
\* them, consensus_encode of the decoded stack writes exactly B.
C2_WireRoundTrip ==
    (out.op = "decode" /\ out.res.k = "Ok" /\ out.res.consumed = Len(out.arg))
        => consensus_encode(out.res.w).written = BFromSeq(out.arg)

\* a decode of a whole input that gave two elements, the second not empty
C2_Witness ==
    /\ out.op = "decode" /\ out.res.k = "Ok"
    /\ out.res.consumed = Len(out.arg)
    /\ w = out.res.w /\ len(w) = 2 /\ elems[2] # <<>>

\* C3: after push(e) on a stack holding V, len() is one more, last() is
\* Some(e), the element that was last is second_to_last(), and to_vec() is
\* V followed by e.
C3_Push ==
    out.op = "push" =>
        /\ len(w) = len(out.pre) + 1
        /\ last(w, checks) = Some(out.arg)
        /\ Len(elems) >= 2 =>
               second_to_last(w, checks) = Some(elems[Len(elems) - 1])
        /\ to_vec(w, checks) = Ok(elems)

\* C4: nth(i) is None for every index i >= len() in the whole range of
\* usize; it returns no element and does not fault.
C4_NthOutOfRange ==
    (out.op = "nth" /\ ~WLt(out.arg, W(len(w)))) => out.res = None

\* The first element of a wire input whose size sum is too large, by the
\* wire format alone: r is walked from pos with i elements and cum payload
\* bytes behind it.  hit tells whether such an element is met before the
\* input ends or a prefix is malformed; requested is the sum of the
\* cumulative payload bytes, the prefix width and the declared length (the
\* largest word when it does not fit), consumed the position after the
\* prefix.
RECURSIVE FirstOversized(_, _, _, _, _)
FirstOversized(r, pos, i, count, cum) ==
    LET prefix == VarIntDecode(SubSeq(r, pos + 1, Len(r)))
        sum    == WAddC(prefix.v, W(cum + prefix.len))
        miss   == [hit |-> FALSE, requested |-> W0, consumed |-> 0]
    IN  IF W(i) = count \/ prefix.k # "Ok" THEN miss
        ELSE IF sum.carry
        THEN [hit |-> TRUE, requested |-> USIZE_MAX,
              consumed |-> pos + prefix.len]
        ELSE IF WLt(W(MAX_VEC_SIZE), sum.v)
        THEN [hit |-> TRUE, requested |-> sum.v, consumed |-> pos + prefix.len]
        ELSE IF pos + prefix.len + WNat(prefix.v) > Len(r) THEN miss
        ELSE FirstOversized(r, pos + prefix.len + WNat(prefix.v), i + 1, count,
                            cum + prefix.len + WNat(prefix.v))

\* the decode got as far as its loop over the elements
LoopEntered(r) ==
    /\ VarIntDecode(r).k = "Ok"
    /\ VarIntDecode(r).v # W0
    /\ ~CapacityFaults(VarIntDecode(r).v, checks)

Oversized(r) == FirstOversized(r, VarIntDecode(r).len, 0, VarIntDecode(r).v, 0)

\* C5: when the decode meets an element for which cumulative payload
\* bytes + prefix width + declared length is over MAX_VEC_SIZE or does not
\* fit the word, it fails with OversizedVectorAllocation, max being
\* MAX_VEC_SIZE and requested that sum (the largest word on overflow); it
\* has read nothing past the element's prefix, does not panic and returns
\* no stack.
C5_OversizedRejected ==
    (out.op = "decode" /\ LoopEntered(out.arg) /\ Oversized(out.arg).hit) =>
        /\ out.res.k = "Oversized"
        /\ out.res.max = W(MAX_VEC_SIZE)
        /\ out.res.requested = Oversized(out.arg).requested
        /\ out.res.consumed = Oversized(out.arg).consumed
        /\ w = Default

\* a decode whose second element brings the sum to MAX_VEC_SIZE + 1
C5_Witness ==
    /\ out.op = "decode" /\ LoopEntered(out.arg) /\ Oversized(out.arg).hit
    /\ out.res.requested = W(MAX_VEC_SIZE + 1)

\* get_tapscript by the rule of BIP341 on the elements es
TapscriptOf(es) ==
    LET n == Len(es)
        k == IF n >= 2 /\ es[n] # <<>> /\ es[n][1][1] = 80 THEN 3 ELSE 2
    IN  IF n = 0 \/ n < k THEN None ELSE Some(es[n - k + 1])

\* C6: get_tapscript() is None on an empty stack; otherwise, with k = 3
\* when there are at least two elements and the last one starts with 0x50
\* and k = 2 in every other case, it is None if n < k and the element at
\* position n - k if not.
C6_Tapscript ==
    out.op = "get_tapscript" => out.res = TapscriptOf(elems)

\* C7: consensus_encode writes varint(n) and then, for each element in
\* order, varint(len) and the bytes, nothing of the index region, and
\* returns the number of bytes written, which is serialized_len().
C7_Encode ==
    out.op = "consensus_encode" =>
        /\ out.res.written = WireOf(elems)
        /\ out.res.ret = BLen(out.res.written)
        /\ serialized_len(w, checks) = Some(out.res.ret)

\* C8: in every reachable state indices_start <= content.len() and
\* content.len() - indices_start = witness_elements * 4.
C8_IndexRegionSize ==
    /\ WLe(w.indices_start, BLen(w.content))
    /\ WMinus(BLen(w.content), w.indices_start) = W(w.witness_elements * U32_SIZE)

\* a signature pushed on a stack that was decoded or built before
C8_Witness ==
    out.op = "push_bitcoin_signature" /\ len(w) = 2

\* the position where the payload entry of element i (from 1) begins
RECURSIVE EntryStart(_, _)
EntryStart(es, i) ==
    IF i = 1 THEN W0
    ELSE WPlus(EntryStart(es, i - 1),
               WPlus(W(VarIntLen(BLen(es[i - 1]))), BLen(es[i - 1])))

\* the index entry of element i (from 1), read from the index region
IndexEntry(i) ==
    U32FromBytes(BPlain(BDrop(w.content,
                              WPlus(w.indices_start, W((i - 1) * U32_SIZE))), 4))

\* C9: for every i < witness_elements index entry i is the position in
\* content where payload entry i begins; the entries follow one another
\* from 0 and the last one ends at indices_start, whatever the sizes of the
\* elements that push and from_vec took.
C9_Offsets ==
    /\ w.witness_elements = Len(elems)
    /\ BTake(w.content, w.indices_start) = WirePayload(elems)
    /\ EntryStart(elems, Len(elems) + 1) = w.indices_start
    /\ \A i \in 1..Len(elems) : IndexEntry(i) = EntryStart(elems, i)

\* C10: a fresh iter() yields len() items, item k being nth(k), and then
\* None on every later call; the size hint before each call is len() minus
\* the number of items yielded, and 0 once the iteration has ended.
C10_Iteration ==
    /\ out.op = "next" => out.res.k # "Panic"
    /\ it.live =>
        /\ Len(it.yielded) <= len(w)
        /\ \A k \in 1..Len(it.yielded) :
               Some(it.yielded[k]) = nth(w, W(k - 1), checks)
        /\ it.ended => Len(it.yielded) = len(w)
        /\ size_hint(it.iter, checks) = Some(W(len(w) - Len(it.yielded)))

\* C11: in every reachable state witness_elements = 0 implies indices_start
\* = 0 and an empty content; clear() on any stack, from_vec of the empty
\* collection and the decode of a zero count (which reads nothing more) each
\* give a stack equal field for field to Witness::new(); and a push that
\* follows clear() gives what it gives on a fresh stack.
C11_EmptyCanonical ==
    /\ [](/\ w.witness_elements = 0 =>
                w.indices_start = W0 /\ w.content = <<>>
          /\ out.op = "clear" => w = Default
          /\ (out.op = "from_vec" /\ out.arg = <<>>) => w = Default
          /\ (out.op = "decode" /\ out.res.k = "Ok"
                  /\ VarIntDecode(out.arg).v = W0) =>
                /\ w = Default
                /\ out.res.consumed = VarIntDecode(out.arg).len)
    /\ [][(out.op = "clear" /\ out'.op = "push") =>
              w' = push(Default, out'.arg)]_vars

\* clear() has emptied a stack of two elements that ends with a signature
C11_Witness ==
    /\ out.op = "clear" /\ len(out.pre) = 2
    /\ out.pre.indices_start = W(13)

\* the element count a wire input declares
DeclaredCount(r) == VarIntDecode(r).v

\* C12: consensus_decode returns a stack or an error value for every
\* input, whatever count and lengths it declares: it does not panic, the
\* size witness_elements * 4 of the index accumulator does not wrap, and no
\* buffer of more than MAX_VEC_SIZE bytes is asked for.
C12_DecodeChecked ==
    out.op = "decode" =>
        /\ out.res.k \in {"Ok", "Io", "NonMinimal", "Oversized"}
        /\ (VarIntDecode(out.arg).k = "Ok" /\ DeclaredCount(out.arg) # W0) =>
               /\ ~IndicesCapacity(DeclaredCount(out.arg)).carry
               /\ WLe(IndicesCapacity(DeclaredCount(out.arg)).v,
                      W(MAX_VEC_SIZE))

\* the encoded payload of the elements es is at most MAX_VEC_SIZE bytes
PayloadFits(es) == WLe(BLen(WirePayload(es)), W(MAX_VEC_SIZE))

\* C13: for every sequence V of byte strings whose encoded payload is at
\* most MAX_VEC_SIZE bytes, from_vec(V), the pushes of V's elements in
\* order onto a new or cleared stack, and the decode of V's wire encoding
\* give stacks with the same content, witness_elements and indices_start,
\* and the stack gives V back: stacks are equal exactly when their element
\* sequences are.
C13_Canonical ==
    PayloadFits(elems) =>
        /\ w = from_vec(elems)
        /\ to_vec(w, checks) = Ok(elems)
        /\ (out.op = "decode" /\ out.res.k = "Ok") =>
               BFromSeq(SubSeq(out.arg, 1, out.res.consumed)) = WireOf(elems)

\* two pushes have built the stack that the decode of 02 00 02 50 01 gives
C13_Witness ==
    /\ out.op = "push" /\ len(w) = 2 /\ PayloadFits(elems)
    /\ w = consensus_decode(<<2, 0, 2, 80, 1>>, checks).w

====
